---- MODULE Spec2Model ----
(***************************************************************************)
(* School ERP API (FastAPI + MongoDB): the four resource families          *)
(* students, teachers, classes and invoices of src/main.py, each a list /  *)
(* create / get / update / delete quintet over one collection.             *)
(*                                                                         *)
(* Strings are sequences of one-character strings.  An Optional value is   *)
(* <<>> (None) or <<v>>.  A request body is a function from the fields of  *)
(* its pydantic model to Optional values.  A stored document is a function *)
(* from its field names to values; "_id" is an ObjectId (12 bytes) and     *)
(* "created_at" the insertion time.                                        *)
(***************************************************************************)
EXTENDS Integers, Sequences, FiniteSets, TLC

VARIABLES
    store,      \* collection name -> set of documents
    nextOid,    \* counter of the driver's ObjectId generator
    clock,      \* wall clock read by create_document
    resp,       \* response of the request issued last ("pending": not yet answered)
    pending,    \* <<>> or <<r>>: the paginated list request between its count and its find
    deleted     \* history: the ObjectId of every delete answered {deleted: true}

vars == <<store, nextOid, clock, resp, pending, deleted>>

(* ------------------------------ bounds -------------------------------- *)

\* documents ever created
MaxDocs == 2

(* ----------------------------- constants ------------------------------ *)

\* characters of the string form of an ObjectId
ObjIdLen == 24
\* list_*: limit: int = 50
DefaultLimit == 50
\* value of the ObjectId counter at start (the driver starts it anywhere)
FirstOid == 10

None == <<>>
Some(v) == <<v>>

Min(a, b) == IF a < b THEN a ELSE b
Abs(n) == IF n < 0 THEN 0 - n ELSE n

Kinds == {"students", "teachers", "classes", "invoices"}

\* collection each resource family reads and writes
Coll(k) ==
    CASE k = "students" -> "student"
      [] k = "teachers" -> "teacher"
      [] k = "classes"  -> "classroom"
      [] k = "invoices" -> "feeinvoice"

Colls == {Coll(k) : k \in Kinds}

\* fields of the *Create models
CreateFields(k) ==
    CASE k = "students" -> {"admission_number", "first_name", "last_name", "class_id", "status"}
      [] k = "teachers" -> {"first_name", "last_name", "email"}
      [] k = "classes"  -> {"name", "year"}
      [] k = "invoices" -> {"student_id", "invoice_number", "issue_date", "due_date", "amount"}

\* fields of the *Update models
UpdateFields(k) ==
    CASE k = "students" -> {"admission_number", "first_name", "last_name", "class_id", "status"}
      [] k = "teachers" -> {"first_name", "last_name", "email", "status"}
      [] k = "classes"  -> {"name", "year", "class_teacher_id"}
      [] k = "invoices" -> {"student_id", "invoice_number", "issue_date", "due_date", "amount", "status"}

\* the `fields` list of each list_* handler
SearchFields(k) ==
    CASE k = "students" -> {"admission_number", "first_name", "last_name", "status"}
      [] k = "teachers" -> {"first_name", "last_name", "email", "status"}
      [] k = "classes"  -> {"name", "year", "class_teacher_id"}
      [] k = "invoices" -> {"invoice_number", "student_id", "status"}

\* fields whose stored value is not a string (int, float, date, ObjectId, datetime)
NonStringFields == {"year", "amount", "issue_date", "due_date", "_id", "created_at"}

(* ------------------------------ ObjectId ------------------------------ *)

HexDigits == <<"0", "1", "2", "3", "4", "5", "6", "7", "8", "9", "a", "b", "c", "d", "e", "f">>
UpperHex == <<"0", "1", "2", "3", "4", "5", "6", "7", "8", "9", "A", "B", "C", "D", "E", "F">>

IsHex(c) == \E i \in 1..16 : HexDigits[i] = c \/ UpperHex[i] = c
HexVal(c) == (CHOOSE i \in 1..16 : HexDigits[i] = c \/ UpperHex[i] = c) - 1

\* bson.ObjectId.is_valid for a str: 24 hexadecimal characters
IsValidOid(s) == Len(s) = ObjIdLen /\ \A i \in 1..Len(s) : IsHex(s[i])

\* ObjectId(str): the 12 bytes the 24 hexadecimal characters spell
ParseOid(s) == [j \in 1..(ObjIdLen \div 2) |-> 16 * HexVal(s[2 * j - 1]) + HexVal(s[2 * j])]

\* str(ObjectId): lower-case hexadecimal
OidStr(oid) ==
    [i \in 1..ObjIdLen |->
        IF i % 2 = 1 THEN HexDigits[(oid[(i + 1) \div 2] \div 16) + 1]
                     ELSE HexDigits[(oid[i \div 2] % 16) + 1]]

\* the ObjectId the driver generates from counter value n
NewOid(n) == [j \in 1..(ObjIdLen \div 2) |-> IF j = ObjIdLen \div 2 THEN n % 256 ELSE 0]

to_object_id_404(id_str) ==
    IF IsValidOid(id_str) THEN [ok |-> TRUE, oid |-> ParseOid(id_str)]
                          ELSE [ok |-> FALSE, status |-> 404]

\* to_object_id: the ObjectId, or HTTP 400
to_object_id(id_str) ==
    IF IsValidOid(id_str) THEN [ok |-> TRUE, oid |-> ParseOid(id_str)]
                          ELSE [ok |-> FALSE, status |-> 400]

\* serialize: "_id" replaced by its string form
serialize(doc) ==
    IF "_id" \in DOMAIN doc
        THEN [f \in DOMAIN doc |-> IF f = "_id" THEN OidStr(doc[f]) ELSE doc[f]]
        ELSE doc

serialize_many(items) == [i \in 1..Len(items) |-> serialize(items[i])]

(* ------------------------ search (build_search_query) ----------------- *)

Uppers == <<"A", "B", "C", "D", "E", "F", "G", "H", "I", "J", "K", "L", "M",
            "N", "O", "P", "Q", "R", "S", "T", "U", "V", "W", "X", "Y", "Z">>
Lowers == <<"a", "b", "c", "d", "e", "f", "g", "h", "i", "j", "k", "l", "m",
            "n", "o", "p", "q", "r", "s", "t", "u", "v", "w", "x", "y", "z">>

\* case folding of the "i" option
Fold(c) == IF \E i \in 1..26 : Uppers[i] = c
               THEN Lowers[CHOOSE i \in 1..26 : Uppers[i] = c]
               ELSE c

\* The regular expression p matched against s from position j on, pattern
\* position i: "^" asserts the start of the string, "." is any character,
\* every other character of the model's alphabet stands for itself.
RECURSIVE RegexAt(_, _, _, _)
RegexAt(p, s, i, j) ==
    IF i > Len(p) THEN TRUE
    ELSE IF p[i] = "^" THEN j = 1 /\ RegexAt(p, s, i + 1, j)
    ELSE /\ j <= Len(s)
         /\ (p[i] = "." \/ Fold(p[i]) = Fold(s[j]))
         /\ RegexAt(p, s, i + 1, j + 1)

\* {"$regex": p, "$options": "i"} on a string value: an unanchored search
RegexSearch(p, s) == \E j \in 1..(Len(s) + 1) : RegexAt(p, s, 1, j)

\* build_search_query: {} when q is None or "", else the $or of one regex per field
build_search_query(q, fields) ==
    IF q = None \/ q[1] = <<>> THEN [empty |-> TRUE]
    ELSE [empty |-> FALSE, regex |-> q[1], fields |-> fields]

(* ------------------------------ the store ------------------------------ *)

\* a document satisfies the filter; $regex selects string values only
Matches(doc, query) ==
    \/ query.empty
    \/ \E f \in query.fields :
          /\ f \in DOMAIN doc
          /\ f \notin NonStringFields
          /\ RegexSearch(query.regex, doc[f])

\* collection.find(query)
Find(docs, query) == {d \in docs : Matches(d, query)}

\* collection.count_documents(query) / cursor.count()
CountDocuments(docs, query) == Cardinality(Find(docs, query))

Newest(docs) == CHOOSE d \in docs : \A e \in docs : e["created_at"] <= d["created_at"]

\* cursor.sort("created_at", -1)
RECURSIVE SortCreatedDesc(_)
SortCreatedDesc(docs) ==
    IF docs = {} THEN <<>>
    ELSE <<Newest(docs)>> \o SortCreatedDesc(docs \ {Newest(docs)})

\* cursor.skip(n), n >= 0 (a negative n raises ValueError in the driver)
RECURSIVE CursorSkip(_, _)
CursorSkip(items, n) ==
    IF n = 0 \/ items = <<>> THEN items ELSE CursorSkip(Tail(items), n - 1)

RECURSIVE Take(_, _)
Take(items, n) ==
    IF n = 0 \/ items = <<>> THEN <<>> ELSE <<Head(items)>> \o Take(Tail(items), n - 1)

\* cursor.limit(n): 0 is no limit, a negative n is a single batch of -n
CursorLimit(items, n) == IF n = 0 THEN items ELSE Take(items, Abs(n))

\* collection.find_one({"_id": oid}): the set of the (at most one) match
FindOne(docs, oid) == {d \in docs : d["_id"] = oid}

UpdateOneUpsert(docs, oid, data) ==
    IF FindOne(docs, oid) = {}
        THEN [docs |-> docs \cup {[f \in DOMAIN data \cup {"_id"} |->
                                      IF f = "_id" THEN oid ELSE data[f]]},
              matched_count |-> 1]
        ELSE [docs |-> {IF d["_id"] = oid
                           THEN [f \in DOMAIN d \cup DOMAIN data |->
                                    IF f \in DOMAIN data THEN data[f] ELSE d[f]]
                           ELSE d : d \in docs},
              matched_count |-> 1]

UpdateOneReplace(docs, oid, data) ==
    [docs |-> {IF d["_id"] = oid
                  THEN [f \in DOMAIN data \cup {"_id", "created_at"} |->
                           IF f \in DOMAIN data THEN data[f] ELSE d[f]]
                  ELSE d : d \in docs},
     matched_count |-> Cardinality(FindOne(docs, oid))]

\* collection.update_one({"_id": oid}, {"$set": data})
UpdateOne(docs, oid, data) ==
    [docs |-> {IF d["_id"] = oid
                  THEN [f \in DOMAIN d \cup DOMAIN data |->
                           IF f \in DOMAIN data THEN data[f] ELSE d[f]]
                  ELSE d : d \in docs},
     matched_count |-> Cardinality(FindOne(docs, oid))]

DeleteOneSoft(docs, oid) ==
    [docs |-> docs, deleted_count |-> Cardinality(FindOne(docs, oid))]

\* collection.delete_one({"_id": oid})
DeleteOne(docs, oid) ==
    [docs |-> docs \ FindOne(docs, oid),
     deleted_count |-> Cardinality(FindOne(docs, oid))]

\* create_document (database.py): stamp the creation time, insert_one, str(inserted_id)
create_document(docs, data, oid, now) ==
    [docs |-> docs \cup {[f \in DOMAIN data \cup {"_id", "created_at"} |->
                             IF f = "_id" THEN oid
                             ELSE IF f = "created_at" THEN now
                             ELSE data[f]]},
     id |-> OidStr(oid)]

(* ------------------------------ handlers ------------------------------ *)

\* payload.model_dump(exclude_none=True)
model_dump(payload) ==
    [f \in {g \in DOMAIN payload : payload[g] # None} |-> payload[f][1]]

\* dict.setdefault(key, value)
setdefault(data, key, value) ==
    IF key \in DOMAIN data THEN data
    ELSE [f \in DOMAIN data \cup {key} |-> IF f = key THEN value ELSE data[f]]

Active == <<"a", "c", "t", "i", "v", "e">>
Unpaid == <<"u", "n", "p", "a", "i", "d">>

create_student_overwrite(payload) ==
    [f \in DOMAIN model_dump(payload) \cup {"status"} |->
        IF f = "status" THEN Active ELSE model_dump(payload)[f]]

\* create_student: the document handed to create_document
create_student(payload) == setdefault(model_dump(payload), "status", Active)

\* create_teacher
create_teacher(payload) == model_dump(payload)

\* create_class
create_class(payload) == model_dump(payload)

\* create_invoice
create_invoice(payload) == setdefault(model_dump(payload), "status", Unpaid)

CreateData(k, payload) ==
    CASE k = "students" -> create_student(payload)
      [] k = "teachers" -> create_teacher(payload)
      [] k = "classes"  -> create_class(payload)
      [] k = "invoices" -> create_invoice(payload)

\* get_student / get_teacher / get_class / get_invoice on the collection's documents
get_by_id(docs, id) ==
    LET o == to_object_id(id) IN
    IF ~o.ok THEN [status |-> o.status, calls |-> 0]
    ELSE LET found == FindOne(docs, o.oid) IN
         IF found = {} THEN [status |-> 404, calls |-> 1]
         ELSE [status |-> 200, calls |-> 1, body |-> serialize(CHOOSE d \in found : TRUE)]

\* update_*: the response and the collection's documents afterwards
update_by_id(docs, id, payload) ==
    LET o == to_object_id(id) IN
    IF ~o.ok THEN [status |-> o.status, calls |-> 0, docs |-> docs]
    ELSE LET res == UpdateOne(docs, o.oid, model_dump(payload)) IN
         IF res.matched_count = 0 THEN [status |-> 404, calls |-> 1, docs |-> res.docs]
         ELSE [status |-> 200, calls |-> 1, docs |-> res.docs]

\* delete_*: the response and the collection's documents afterwards
delete_by_id(docs, id) ==
    LET o == to_object_id(id) IN
    IF ~o.ok THEN [status |-> o.status, calls |-> 0, docs |-> docs]
    ELSE LET res == DeleteOne(docs, o.oid) IN
         IF res.deleted_count = 0 THEN [status |-> 404, calls |-> 1, docs |-> res.docs]
         ELSE [status |-> 200, calls |-> 1, docs |-> res.docs]

PaginatesIfGiven(page, page_size) == page # None /\ page_size # None

\* `if page and page_size:` on two Optional[int]
Paginates(page, page_size) ==
    /\ page # None /\ page[1] # 0
    /\ page_size # None /\ page_size[1] # 0

\* limit: int = 50
LimitOf(limit) == IF limit = None THEN DefaultLimit ELSE limit[1]

\* the cursor of list_*: find(query).sort("created_at", -1)
Cursor(docs, k, q) == SortCreatedDesc(Find(docs, build_search_query(q, SearchFields(k))))

list_flat_unlimited(docs, k, limit, q) == serialize_many(Cursor(docs, k, q))

\* list_*, flat branch: list(cursor.limit(limit))
list_flat(docs, k, limit, q) == serialize_many(CursorLimit(Cursor(docs, k, q), LimitOf(limit)))

list_total_page(docs, k, q, page, page_size) ==
    Min(page_size[1], CountDocuments(docs, build_search_query(q, SearchFields(k))))

\* list_*, paginated branch: total
list_total(docs, k, q, page, page_size) ==
    CountDocuments(docs, build_search_query(q, SearchFields(k)))

\* list_*, paginated branch: skip
list_skip(page, page_size) == (page[1] - 1) * page_size[1]

list_items_noskip(docs, k, q, page, page_size) ==
    serialize_many(CursorLimit(Cursor(docs, k, q), page_size[1]))

\* list_*, paginated branch: list(cursor.skip(skip).limit(page_size))
list_items(docs, k, q, page, page_size) ==
    serialize_many(CursorLimit(CursorSkip(Cursor(docs, k, q), list_skip(page, page_size)),
                               page_size[1]))

(* ------------------------------- inputs -------------------------------- *)

\* a request body over `fields`: the fields of `given` carry its values, the rest are null
Body(fields, given) == [f \in fields |-> IF f \in DOMAIN given THEN Some(given[f]) ELSE None]

CreatePayloads(k) ==
    CASE k = "students" ->
            {Body(CreateFields(k), [admission_number |-> <<"n", "1">>, first_name |-> <<"a", "b">>,
                                    last_name |-> <<"^", "b">>]),
             Body(CreateFields(k), [admission_number |-> <<"n", "2">>, first_name |-> <<"b">>,
                                    last_name |-> <<"b">>, class_id |-> <<"c">>,
                                    status |-> <<"x">>])}
      [] k = "teachers" ->
            {Body(CreateFields(k), [first_name |-> <<"a", "b">>, last_name |-> <<"b">>,
                                    email |-> <<"e", "@", "x">>])}
      [] k = "classes" ->
            {Body(CreateFields(k), [name |-> <<"A">>, year |-> 2024])}
      [] k = "invoices" ->
            {Body(CreateFields(k), [student_id |-> <<"s">>, invoice_number |-> <<"i", "1">>,
                                    issue_date |-> <<"d", "1">>, due_date |-> <<"d", "2">>,
                                    amount |-> 5])}

UpdatePayloads(k) ==
    {Body(UpdateFields(k), <<>>)} \cup
    CASE k = "students" -> {Body(UpdateFields(k), [status |-> <<"y">>]),
                            Body(UpdateFields(k), [first_name |-> <<"z">>, class_id |-> <<"d">>])}
      [] k = "teachers" -> {Body(UpdateFields(k), [status |-> Active])}
      [] k = "classes"  -> {Body(UpdateFields(k), [year |-> 2025])}
      [] k = "invoices" -> {Body(UpdateFields(k), [status |-> <<"p", "a", "i", "d">>])}

\* the identifiers the store can assign
Oids == {NewOid(n) : n \in FirstOid..(FirstOid + MaxDocs - 1)}

ZeroId == [i \in 1..ObjIdLen |-> "0"]
NotAnId == <<"n", "o", "t", "-", "a", "n", "-", "i", "d">>
UpperId == [i \in 1..ObjIdLen |-> IF i = ObjIdLen THEN "A" ELSE "0"]
NotHexId == [i \in 1..ObjIdLen |-> "g"]

\* path parameters tried: every assignable identifier, the identifier of the first
\* document in upper case, a well-formed identifier never assigned, two malformed ones
IdInputs == {OidStr(o) : o \in Oids} \cup {ZeroId, UpperId, NotAnId, NotHexId}

\* q tried on the list of kind k: absent, "", a pattern some document of the
\* kind matches, one none matches, and a value of a searchable field
QInputs(k) ==
    {None, Some(<<>>), Some(<<"A">>), Some(<<"z">>)} \cup
    CASE k = "students" -> {Some(<<"^", "b">>)}
      [] k = "classes"  -> {Some(<<"2", "0", "2", "4">>)}
      [] OTHER -> {}

\* limit, page: absent, negative, zero, positive
ArgInputs == {None, Some(0 - 1), Some(0), Some(1), Some(2)}

\* page_size: absent, zero, positive
SizeInputs == {None, Some(0), Some(1), Some(2)}

\* <<limit, page, page_size>> tried: limit and the pagination are not varied together
ListArgs ==
    {<<limit, None, None>> : limit \in ArgInputs} \cup
    {<<None, page, page_size>> : page \in ArgInputs, page_size \in SizeInputs}

\* bodies and identifiers of the writes that run beside the lists
ListCreatePayloads(k) == CreatePayloads(k)
ListUpdatePayloads(k) == {Body(UpdateFields(k), <<>>)}
ListIdInputs == {OidStr(o) : o \in Oids} \cup {NotAnId}

(* ---------------------------- state machine ---------------------------- *)

\* no response is on its way to a client
Idle == [op |-> "none"]

Init ==
    /\ store = [c \in Colls |-> {}]
    /\ nextOid = FirstOid
    /\ clock = 0
    /\ resp = Idle
    /\ pending = <<>>
    /\ deleted = {}

\* Writes interleaved with a list in flight: those to the collection it reads
\* (a write to another collection commutes with both of its store calls).
Beside(k) == IF pending = <<>> THEN TRUE ELSE pending[1].kind = k

\* a list between its two store calls sees its collection change
Observe(c, docs) ==
    pending' = IF pending # <<>> /\ Coll(pending[1].kind) = c
                   THEN <<[pending[1] EXCEPT !.seen = @ \cup {docs}]>>
                   ELSE pending

\* POST /{kind}
Create(k, payload) ==
    /\ resp = Idle
    /\ Beside(k)
    /\ nextOid < FirstOid + MaxDocs
    /\ LET res == create_document(store[Coll(k)], CreateData(k, payload), NewOid(nextOid), clock) IN
         /\ store' = [store EXCEPT ![Coll(k)] = res.docs]
         /\ resp' = [op |-> "create", kind |-> k, payload |-> payload, status |-> 200,
                     calls |-> 1, id |-> res.id]
         /\ Observe(Coll(k), res.docs)
    /\ nextOid' = nextOid + 1
    /\ clock' = clock + 1
    /\ UNCHANGED deleted

\* GET /{kind}/{id}.  A read by another client changes nothing a list in flight
\* sees, so none is taken between the two store calls of a list.
Get(k, id) ==
    /\ resp = Idle
    /\ pending = <<>>
    /\ resp' = [op |-> "get", kind |-> k, id |-> id] @@ get_by_id(store[Coll(k)], id)
    /\ UNCHANGED <<store, nextOid, clock, pending, deleted>>

\* PUT /{kind}/{id}
Update(k, id, payload) ==
    /\ resp = Idle
    /\ Beside(k)
    /\ LET r == update_by_id(store[Coll(k)], id, payload) IN
         /\ store' = [store EXCEPT ![Coll(k)] = r.docs]
         /\ resp' = [op |-> "update", kind |-> k, id |-> id, payload |-> payload,
                     status |-> r.status, calls |-> r.calls]
         /\ Observe(Coll(k), r.docs)
    /\ UNCHANGED <<nextOid, clock, deleted>>

\* DELETE /{kind}/{id}
Delete(k, id) ==
    /\ resp = Idle
    /\ Beside(k)
    /\ LET r == delete_by_id(store[Coll(k)], id) IN
         /\ store' = [store EXCEPT ![Coll(k)] = r.docs]
         /\ resp' = [op |-> "delete", kind |-> k, id |-> id, status |-> r.status,
                     calls |-> r.calls]
         /\ deleted' = IF r.status = 200 THEN deleted \cup {ParseOid(id)} ELSE deleted
         /\ Observe(Coll(k), r.docs)
    /\ UNCHANGED <<nextOid, clock>>

ListRequest(k, limit, q, page, page_size) ==
    [op |-> "list", kind |-> k, limit |-> limit, q |-> q, page |-> page, page_size |-> page_size]

\* GET /{kind} without pagination: one find
ListFlat(k, limit, q, page, page_size) ==
    /\ resp = Idle
    /\ pending = <<>>
    /\ ~Paginates(page, page_size)
    /\ resp' = ListRequest(k, limit, q, page, page_size) @@
               [status |-> 200, shape |-> "flat", calls |-> 1,
                items |-> list_flat(store[Coll(k)], k, limit, q),
                seen |-> {store[Coll(k)]}]
    /\ UNCHANGED <<store, nextOid, clock, pending, deleted>>

\* GET /{kind} with pagination, first store call: the count.  A negative skip
\* makes cursor.skip raise before the find is sent.
ListCount(k, limit, q, page, page_size) ==
    /\ resp = Idle
    /\ pending = <<>>
    /\ Paginates(page, page_size)
    /\ LET total == list_total(store[Coll(k)], k, q, page, page_size) IN
       IF list_skip(page, page_size) < 0
           THEN /\ resp' = ListRequest(k, limit, q, page, page_size) @@
                           [status |-> 500, shape |-> "error", calls |-> 1,
                            seen |-> {store[Coll(k)]}]
                /\ pending' = pending
           ELSE /\ resp' = resp
                /\ pending' = <<ListRequest(k, limit, q, page, page_size) @@
                                [total |-> total, atCount |-> store[Coll(k)],
                                 seen |-> {store[Coll(k)]}]>>
    /\ UNCHANGED <<store, nextOid, clock, deleted>>

\* GET /{kind} with pagination, second store call: the find
ListFetch ==
    /\ resp = Idle
    /\ pending # <<>>
    /\ LET r == pending[1] IN
       resp' = ListRequest(r.kind, r.limit, r.q, r.page, r.page_size) @@
               [status |-> 200, shape |-> "paged", calls |-> 2,
                total |-> r.total, atCount |-> r.atCount, seen |-> r.seen,
                atFetch |-> store[Coll(r.kind)],
                items |-> list_items(store[Coll(r.kind)], r.kind, r.q, r.page, r.page_size)]
    /\ pending' = <<>>
    /\ UNCHANGED <<store, nextOid, clock, deleted>>

\* The response leaves the service: resp holds one response at a time, the
\* one the service has produced and not yet sent.
Respond ==
    /\ resp # Idle
    /\ resp' = Idle
    /\ UNCHANGED <<store, nextOid, clock, pending, deleted>>

\* the identifier-addressed resources with every kind of identifier
Next ==
    \/ \E k \in Kinds : \E payload \in CreatePayloads(k) : Create(k, payload)
    \/ \E k \in Kinds, id \in IdInputs : Get(k, id)
    \/ \E k \in Kinds, id \in IdInputs : \E payload \in UpdatePayloads(k) : Update(k, id, payload)
    \/ \E k \in Kinds, id \in IdInputs : Delete(k, id)
    \/ Respond

Spec == Init /\ [][Next]_vars

\* the lists, with writes running beside them
NextList ==
    \/ \E k \in Kinds : \E payload \in ListCreatePayloads(k) : Create(k, payload)
    \/ \E k \in Kinds, id \in ListIdInputs : Get(k, id)
    \/ \E k \in Kinds, id \in ListIdInputs : \E payload \in ListUpdatePayloads(k) :
          Update(k, id, payload)
    \/ \E k \in Kinds, id \in ListIdInputs : Delete(k, id)
    \/ \E k \in Kinds, a \in ListArgs : \E q \in QInputs(k) : ListFlat(k, a[1], q, a[2], a[3])
    \/ \E k \in Kinds, a \in ListArgs : \E q \in QInputs(k) : ListCount(k, a[1], q, a[2], a[3])
    \/ ListFetch
    \/ Respond

SpecList == Init /\ [][NextList]_vars

(* ------------------------------- claims -------------------------------- *)

\* fields the store adds to a created document
StoreAssigned == {"_id", "created_at"}

\* the fields a create body submits, with the default of an omitted status
Submitted(k, payload) ==
    LET given == {f \in DOMAIN payload : payload[f] # None}
        defaulted == IF k \in {"students", "invoices"} THEN {"status"} \ given ELSE {}
    IN [f \in given \cup defaulted |->
           IF f \in given THEN payload[f][1]
           ELSE IF k = "students" THEN Active ELSE Unpaid]

\* identifiers of IdInputs that are not 24 hexadecimal characters
Malformed == {NotAnId, NotHexId}

C3_DeletedStaysGone ==
    (/\ resp.op = "get"
     /\ resp.id \notin Malformed
     /\ ParseOid(resp.id) \in deleted)
    => resp.status = 404

C3_Witness ==
    /\ resp.op = "get"
    /\ resp.id \notin Malformed
    /\ ParseOid(resp.id) \in deleted
    /\ store[Coll(resp.kind)] # {}

\* C4: get-by-id, update and delete answer 400 to a malformed identifier,
\* without a store call and without a change of the store, and 404 to a
\* well-formed identifier that matches no document.
C4_IdentifierErrors ==
    [][(resp = Idle /\ resp'.op \in {"get", "update", "delete"})
       =>
       IF resp'.id \in Malformed
           THEN resp'.status = 400 /\ resp'.calls = 0 /\ store' = store
           ELSE /\ resp'.status # 400
                /\ FindOne(store[Coll(resp'.kind)], ParseOid(resp'.id)) = {}
                      => resp'.status = 404]_vars

C4_Witness == resp.op = "get" /\ resp.id = NotAnId /\ resp.status = 400

\* C9: update and delete of a well-formed identifier that matches no document
\* answer 404 and leave every collection as it was (update inserts nothing);
\* a delete of an identifier already deleted answers 404.
C9_MissingIsNotFound ==
    [][(/\ resp = Idle
        /\ resp'.op \in {"update", "delete"}
        /\ resp'.id \notin Malformed
        /\ FindOne(store[Coll(resp'.kind)], ParseOid(resp'.id)) = {})
       =>
       /\ resp'.status = 404
       /\ store' = store
       /\ deleted' = deleted]_vars

C9_Witness ==
    /\ resp.op = "delete"
    /\ resp.status = 404
    /\ resp.id \notin Malformed
    /\ ParseOid(resp.id) \in deleted

\* the documents of `docs` the filter of a list of kind k with search text q selects
Selected(docs, k, q) == Find(docs, build_search_query(q, SearchFields(k)))

\* items[from + 1 .. from + n], as far as they exist
Slice(items, from, n) == SubSeq(items, from + 1, Min(from + n, Len(items)))

\* newest first
Descending(items) ==
    \A i, j \in 1..Len(items) : i < j => items[i]["created_at"] > items[j]["created_at"]

Supplied(arg) == arg # None

\* C5 as stated: {items, total} whenever page and page_size are both supplied,
\* whatever their values; the flat sequence when either is not supplied.
C5_ShapeAsStated ==
    resp.op = "list" =>
        IF Supplied(resp.page) /\ Supplied(resp.page_size)
            THEN resp.shape = "paged"
            ELSE resp.shape = "flat"

\* C5, amended: {items, total} when page and page_size are both supplied and
\* both at least 1; the flat sequence when either is not supplied or is 0.
C5_ShapeAmended ==
    resp.op = "list" =>
        /\ (/\ Supplied(resp.page) /\ resp.page[1] >= 1
            /\ Supplied(resp.page_size) /\ resp.page_size[1] >= 1)
           => resp.shape = "paged"
        /\ (\/ ~Supplied(resp.page) \/ ~Supplied(resp.page_size)
            \/ resp.page[1] = 0 \/ resp.page_size[1] = 0)
           => resp.shape = "flat"

C5_Witness ==
    /\ resp.op = "list"
    /\ resp.page = Some(2)
    /\ resp.page_size = Some(1)
    /\ resp.shape = "paged"
    /\ Len(resp.items) = 1

\* C6: a paginated list of page p >= 1 and page_size n >= 1 returns at most n
\* items, the slice from offset (p - 1) * n of the selected documents of its
\* collection, newest first, and as total the number of all selected documents
\* (all documents of the collection when q is not given).  Its count and its
\* find are two store calls: the total is of the collection as the count saw
\* it, the items are of the collection as the find saw it.
C6_PageContents ==
    (resp.op = "list" /\ resp.shape = "paged" /\ resp.page[1] >= 1 /\ resp.page_size[1] >= 1)
    =>
    LET p == resp.page[1]
        n == resp.page_size[1]
        found == serialize_many(SortCreatedDesc(Selected(resp.atFetch, resp.kind, resp.q)))
    IN /\ Len(resp.items) <= n
       /\ resp.items = Slice(found, (p - 1) * n, n)
       /\ Descending(resp.items)
       /\ resp.total = Cardinality(Selected(resp.atCount, resp.kind, resp.q))
       /\ resp.q = None => resp.total = Cardinality(resp.atCount)

C6_Witness ==
    /\ resp.op = "list"
    /\ resp.shape = "paged"
    /\ resp.q = Some(<<"A">>)
    /\ resp.page = Some(1)
    /\ resp.page_size = Some(1)
    /\ resp.total = 2
    /\ Len(resp.items) = 1
    /\ Cardinality(resp.atFetch) = 2

\* q occurs in s as it is written
IsSubstring(q, s) ==
    \E i \in 0..(Len(s) - Len(q)) : \A j \in 1..Len(q) : s[i + j] = q[j]

\* q occurs in s, letter case apart
IsSubstringAnyCase(q, s) ==
    \E i \in 0..(Len(s) - Len(q)) : \A j \in 1..Len(q) : Fold(s[i + j]) = Fold(q[j])

\* the string-valued searchable fields of a document of kind k
SearchedStrings(d, k) == (SearchFields(k) \cap DOMAIN d) \ NonStringFields

\* C7: a flat list with the default limit and search text q returns every
\* record that has q as a substring of a string-valued searchable field, returns
\* nothing when q occurs in no searchable field of any record, and returns
\* every record when q is absent or empty.
C7_Search ==
    (resp.op = "list" /\ resp.shape = "flat" /\ resp.limit = None)
    =>
    LET docs == store[Coll(resp.kind)]
        returned == {resp.items[i] : i \in 1..Len(resp.items)}
    IN IF resp.q = None \/ resp.q = Some(<<>>)
           THEN returned = {serialize(d) : d \in docs}
           ELSE /\ \A d \in docs :
                     (\E f \in SearchedStrings(d, resp.kind) : IsSubstring(resp.q[1], d[f]))
                     => serialize(d) \in returned
                /\ (\A d \in docs : \A f \in SearchedStrings(d, resp.kind) :
                        ~IsSubstringAnyCase(resp.q[1], d[f]))
                   => resp.items = <<>>

\* C8 as stated: a flat list returns at most `limit` documents (50 when limit
\* is not given), the first `limit` selected documents newest first, for every
\* integer limit.
C8_LimitAsStated ==
    (resp.op = "list" /\ resp.shape = "flat")
    =>
    LET n == LimitOf(resp.limit)
        found == serialize_many(SortCreatedDesc(Selected(store[Coll(resp.kind)], resp.kind, resp.q)))
    IN /\ Len(resp.items) <= n
       /\ resp.items = Slice(found, 0, n)

\* C8, amended: the same for every limit of at least 1 (and the default 50).
C8_LimitAmended ==
    (resp.op = "list" /\ resp.shape = "flat" /\ LimitOf(resp.limit) >= 1)
    =>
    LET n == LimitOf(resp.limit)
        found == serialize_many(SortCreatedDesc(Selected(store[Coll(resp.kind)], resp.kind, resp.q)))
    IN /\ Len(resp.items) <= n
       /\ resp.items = Slice(found, 0, n)
       /\ Descending(resp.items)

C8_Witness ==
    /\ resp.op = "list"
    /\ resp.shape = "flat"
    /\ resp.limit = Some(1)
    /\ resp.q = None
    /\ Cardinality(store[Coll(resp.kind)]) = 2
    /\ Len(resp.items) = 1

\* the paginated response a list would give if it read docs alone
OfOneState(r, docs) ==
    /\ r.total = Cardinality(Selected(docs, r.kind, r.q))
    /\ r.items = Slice(serialize_many(SortCreatedDesc(Selected(docs, r.kind, r.q))),
                       (r.page[1] - 1) * r.page_size[1], r.page_size[1])

====
